---- MODULE Spec2Model ----
(***************************************************************************)
(* Model of wiretray.py (MainWindow): the directory scan, the status poll, *)
(* the tunnel toggle and the user/timer events that drive them.            *)
(*                                                                         *)
(* Text is a sequence of symbols.  File names, tunnel names and stderr     *)
(* output are spelled character by character; a literal of the program     *)
(* that no file name of the model can overlap (" (Active)", the error     *)
(* rows, the fixed menu entries) is one symbol.                            *)
(*                                                                         *)
(* The window's visibility (closeEvent, show_window, on_tray_icon_click),  *)
(* the cursor and the icons' pixels are left out: no handler reads them.   *)
(***************************************************************************)
EXTENDS Integers, Sequences, FiniteSets, TLC

\* ------------------------------------------------------------------ bounds
\* Largest number of entries /etc/wireguard holds at once.
MaxFiles == 2

\* ------------------------------------------------------------ text helpers
\* The characters file names are made of, in code-point order.
Alphabet == <<".", "a", "b", "c", "f", "n", "o">>

Ord(c) == CHOOSE i \in DOMAIN Alphabet : Alphabet[i] = c

MinOf(S) == CHOOSE x \in S : \A y \in S : x <= y

\* Python's str < str: by code point at the first difference, a proper
\* prefix first.
StrLess(s, t) ==
  LET n == IF Len(s) < Len(t) THEN Len(s) ELSE Len(t)
      diff == {i \in 1..n : s[i] # t[i]}
  IN IF diff = {} THEN Len(s) < Len(t)
     ELSE Ord(s[MinOf(diff)]) < Ord(t[MinOf(diff)])

\* str.endswith
EndsWith(s, suffix) ==
  /\ Len(s) >= Len(suffix)
  /\ SubSeq(s, Len(s) - Len(suffix) + 1, Len(s)) = suffix

OccursAt(s, i, old) ==
  /\ i + Len(old) - 1 <= Len(s)
  /\ SubSeq(s, i, i + Len(old) - 1) = old

RECURSIVE ReplaceFrom(_, _, _, _)
ReplaceFrom(s, i, old, new) ==
  IF i > Len(s) THEN <<>>
  ELSE IF OccursAt(s, i, old)
       THEN new \o ReplaceFrom(s, i + Len(old), old, new)
       ELSE <<s[i]>> \o ReplaceFrom(s, i + 1, old, new)

\* str.replace(old, new) for a non-empty old: every non-overlapping
\* occurrence, left to right.
Replace(s, old, new) == ReplaceFrom(s, 1, old, new)

\* Python's "x in list".
InList(x, l) == \E i \in DOMAIN l : l[i] = x

\* ---------------------------------------------------------------- literals
DotConf == <<".", "c", "o", "n", "f">>
ListActiveTag == <<" (Active)">>
TrayActiveTag == <<"  [Active]">>
NotFoundText == <<"Error: /etc/wireguard not found">>
DeniedText == <<"Permission Denied: /etc/wireguard">>
HintText == <<"Run: sudo chmod o+rx /etc/wireguard">>
ShowText == <<"Show Controls">>
QuitText == <<"Quit">>

\* ------------------------------------------------------------- environment
\* File names that can appear in /etc/wireguard.
FileNames ==
  { <<"a">> \o DotConf,
    <<"b">> \o DotConf,
    <<"a">> \o DotConf \o DotConf,
    <<"a", ".", "c", "o", "n">>,
    DotConf }

\* Network interfaces that can appear under /sys/class/net.
IfNames == { <<"a">>, <<"b">> }

\* What os.path.exists / os.listdir see of /etc/wireguard.
DirStates == {"ok", "missing", "denied", "notdir"}

\* What the external command can write to stderr.
StderrTexts == { <<"e", "r", "r">>, <<"e">> }

\* str(e) of an exception subprocess.run raises (the command cannot start).
OsErrorText == <<"[Errno 2] No such file or directory: 'sudo'">>

\* ------------------------------------------------------------ scan_configs
\* os.listdir returns the entries in arbitrary order; the order is lost in
\* the sort, so one order stands for all.
RECURSIVE ListDir(_)
ListDir(S) ==
  IF S = {} THEN <<>>
  ELSE LET f == CHOOSE x \in S : TRUE IN <<f>> \o ListDir(S \ {f})

\* config_name = f.replace(".conf", "")
ConfigName(f) == Replace(f, DotConf, <<>>)

KeepConfigs(prev) == prev

\* self.configs = []
FreshConfigs(prev) == <<>>

\* The loop over the listing: append the name of every entry that matches.
RECURSIVE AppendConfigs(_, _)
AppendConfigs(acc, listing) ==
  IF listing = <<>> THEN acc
  ELSE AppendConfigs(
         IF EndsWith(Head(listing), DotConf)
           THEN Append(acc, ConfigName(Head(listing)))
           ELSE acc,
         Tail(listing))

\* One step of the sort: x goes after the entries that are not greater.
InsertSorted(x, l) ==
  LET k == Cardinality({i \in DOMAIN l : ~StrLess(x, l[i])})
  IN SubSeq(l, 1, k) \o <<x>> \o SubSeq(l, k + 1, Len(l))

RECURSIVE SortList(_)
\* list.sort()
SortList(l) ==
  IF l = <<>> THEN <<>>
  ELSE InsertSorted(l[Len(l)], SortList(SubSeq(l, 1, Len(l) - 1)))

\* A list row: its text and its UserRole data (<<>>: none, <<name>>: set).
ConfigRow(c) == [text |-> c, data |-> <<c>>]

MessageRowWithData(t) == [text |-> t, data |-> <<t>>]

\* A row added from a bare string or never given data: item.data() is None.
MessageRow(t) == [text |-> t, data |-> <<>>]

\* A tray-menu entry: its text, what it triggers and the name its lambda
\* captured.
ConfigEntry(c) == [text |-> c, kind |-> "config", c |-> c]

FixedEntry(t, k) == [text |-> t, kind |-> k, c |-> <<>>]

\* update_tray_menu
UpdateTrayMenu(cfgs) ==
  [i \in DOMAIN cfgs |-> ConfigEntry(cfgs[i])]
    \o << FixedEntry(<<>>, "separator"),
          FixedEntry(ShowText, "show"),
          FixedEntry(QuitText, "quit") >>

MissingRows == << MessageRow(NotFoundText) >>

DeniedRows == << MessageRow(DeniedText), MessageRow(HintText) >>

ScanMissingRaises(prev, menu) ==
  [configs |-> FreshConfigs(prev), rows |-> <<>>, menu |-> menu,
   outcome |-> "raised"]

\* What scan_configs does when os.path.exists(WG_DIR) is false: the row is
\* added and the method returns before update_tray_menu.
ScanMissing(prev, menu) ==
  [configs |-> FreshConfigs(prev), rows |-> MissingRows, menu |-> menu,
   outcome |-> "missing"]

\* What scan_configs does when os.listdir raises PermissionError: the
\* handler adds two rows; update_tray_menu was not reached.
ScanDenied(prev, menu) ==
  [configs |-> FreshConfigs(prev), rows |-> DeniedRows, menu |-> menu,
   outcome |-> "denied"]

\* scan_configs: the fields it leaves behind and how it ended.  Only
\* PermissionError is caught: another OSError of os.listdir leaves the slot.
ScanConfigs(prev, menu, ds, fs) ==
  IF ds = "missing" THEN ScanMissing(prev, menu)
  ELSE IF ds = "denied" THEN ScanDenied(prev, menu)
  ELSE IF ds = "notdir"
    THEN [configs |-> FreshConfigs(prev), rows |-> <<>>, menu |-> menu,
          outcome |-> "raised"]
  ELSE LET cfgs == SortList(AppendConfigs(FreshConfigs(prev), ListDir(fs)))
       IN [configs |-> cfgs,
           rows |-> [i \in DOMAIN cfgs |-> ConfigRow(cfgs[i])],
           menu |-> UpdateTrayMenu(cfgs),
           outcome |-> "ok"]

\* ----------------------------------------------------------- update_status
\* Whether the path /sys/class/net/<name> exists on the machine: an
\* interface of that name is present, or the path names the directory itself
\* ("", ".") or its parent ("..").
PathExists(name, net) ==
  \/ name \in net
  \/ name \in { <<>>, <<".">>, <<".", ".">> }

\* is_interface_active
IsInterfaceActive(interface, net) == PathExists(interface, net)

\* "if not name: continue": no data, or the empty string.
Falsy(data) == data = <<>> \/ data[1] = <<>>

\* The text a polled list row gets.
RowLabel(name, active) == IF active THEN name \o ListActiveTag ELSE name

\* The text a polled tray entry gets.
EntryLabel(name, active) == IF active THEN name \o TrayActiveTag ELSE name

\* Part 1 of update_status: the list rows.
PollRows(rs, net) ==
  [i \in DOMAIN rs |->
     IF Falsy(rs[i].data) THEN rs[i]
     ELSE [rs[i] EXCEPT
             !.text = RowLabel(rs[i].data[1],
                               IsInterfaceActive(rs[i].data[1], net))]]

\* any_active as the loop over the rows leaves it.
AnyActive(rs, net) ==
  \E i \in DOMAIN rs :
     ~Falsy(rs[i].data) /\ IsInterfaceActive(rs[i].data[1], net)

\* Part 2 of update_status: every action whose text, less the tag, is a
\* known config name.
PollMenu(mn, cfgs, net) ==
  [k \in DOMAIN mn |->
     LET clean_name == Replace(mn[k].text, TrayActiveTag, <<>>)
     IN IF InList(clean_name, cfgs)
          THEN [mn[k] EXCEPT
                  !.text = EntryLabel(clean_name,
                                      IsInterfaceActive(clean_name, net))]
          ELSE mn[k]]

\* create_status_icon(active): the colour of the dot.
CreateStatusIcon(active) == IF active THEN "green" ELSE "red"

\* update_status: the rows, the menu and the two icons it leaves behind.
UpdateStatus(rs, mn, cfgs, net) ==
  [rows |-> PollRows(rs, net),
   menu |-> PollMenu(mn, cfgs, net),
   icons |-> [tray |-> CreateStatusIcon(AnyActive(rs, net)),
              window |-> CreateStatusIcon(AnyActive(rs, net))]]

\* ------------------------------------------------------------------- state
VARIABLES
  appState,   \* "running", "quit" (quit_app) or "aborted" (an exception left a slot)
  dirState,   \* /etc/wireguard as the file system has it (DirStates)
  files,      \* its entries when it is a readable directory
  sysnet,     \* the interfaces present under /sys/class/net
  configs,    \* self.configs
  rows,       \* self.list_widget's items
  menu,       \* self.tray_menu's actions
  icons,      \* the tray icon and the window icon
  lastOp,     \* the handler that has just returned ("none": back in the event loop)
  invoked,    \* the external commands that handler ran
  errorBox    \* the message boxes that handler showed

vars ==
  << appState, dirState, files, sysnet, configs, rows, menu, icons, lastOp,
     invoked, errorBox >>

\* What is recorded of a handler: which one, how it ended, whether it ended
\* in update_status, and for a toggle the interface, whether its path
\* existed when toggle_vpn was entered and the stderr text captured.
Op(op, outcome, polled, name, wasActive, stderr) ==
  [op |-> op, outcome |-> outcome, polled |-> polled, name |-> name,
   wasActive |-> wasActive, stderr |-> stderr]

PlainOp(op, outcome, polled) == Op(op, outcome, polled, <<>>, FALSE, <<>>)

Listings == {S \in SUBSET FileNames : Cardinality(S) <= MaxFiles}

\* __init__: empty configs, list and menu, then scan_configs and
\* update_status against whatever the machine holds.  Where scan_configs
\* raises, no window is constructed.
Init ==
  /\ appState = "running"
  /\ dirState \in DirStates \ {"notdir"}
  /\ files \in Listings
  /\ dirState # "ok" => files = {}
  /\ sysnet \in SUBSET IfNames
  /\ LET sc == ScanConfigs(<<>>, <<>>, dirState, files)
         st == UpdateStatus(sc.rows, sc.menu, sc.configs, sysnet)
     IN /\ configs = sc.configs
        /\ rows = st.rows
        /\ menu = st.menu
        /\ icons = st.icons
        /\ lastOp = PlainOp("init", sc.outcome, TRUE)
  /\ invoked = <<>>
  /\ errorBox = <<>>

\* ------------------------------------------------------------- environment
\* Control is in the event loop (app.exec()): no handler is running and the
\* last one's record has been dropped.
Idle == appState = "running" /\ lastOp.op = "none"

\* The handler has returned and its message box, if any, is dismissed: the
\* event loop waits for the next event.
ReturnToEventLoop ==
  /\ appState = "running"
  /\ lastOp.op # "none"
  /\ lastOp' = PlainOp("none", "none", FALSE)
  /\ invoked' = <<>>
  /\ errorBox' = <<>>
  /\ UNCHANGED <<appState, dirState, files, sysnet, configs, rows, menu, icons>>

NoGhost == UNCHANGED <<lastOp, invoked, errorBox>>

\* /etc/wireguard is removed, created (empty), made unreadable or replaced
\* by something that is no directory.
DirStateChange ==
  /\ Idle
  /\ \E ds \in DirStates \ {dirState} : dirState' = ds
  /\ files' = {}
  /\ NoGhost
  /\ UNCHANGED <<appState, sysnet, configs, rows, menu, icons>>

\* One entry is added to or removed from the directory.
FileChange ==
  /\ Idle
  /\ dirState = "ok"
  /\ \E f \in FileNames :
       /\ files' = IF f \in files THEN files \ {f} ELSE files \cup {f}
       /\ files' \in Listings
  /\ NoGhost
  /\ UNCHANGED <<appState, dirState, sysnet, configs, rows, menu, icons>>

Flip(net, name) ==
  IF name \in IfNames
    THEN (IF name \in net THEN net \ {name} ELSE net \cup {name})
    ELSE net

\* An interface comes up or goes down outside the program.
NetChange ==
  /\ Idle
  /\ \E n \in IfNames : sysnet' = Flip(sysnet, n)
  /\ NoGhost
  /\ UNCHANGED <<appState, dirState, files, configs, rows, menu, icons>>

\* ---------------------------------------------------------------- handlers
\* The Refresh button: scan_configs.
Refresh ==
  /\ Idle
  /\ LET sc == ScanConfigs(configs, menu, dirState, files)
     IN /\ configs' = sc.configs
        /\ rows' = sc.rows
        /\ menu' = sc.menu
        /\ appState' = IF sc.outcome = "raised" THEN "aborted" ELSE "running"
        /\ lastOp' = PlainOp("scan", sc.outcome, FALSE)
  /\ invoked' = <<>>
  /\ errorBox' = <<>>
  /\ UNCHANGED <<dirState, files, sysnet, icons>>

\* The status timer's timeout: update_status.
TimerTick ==
  /\ Idle
  /\ LET st == UpdateStatus(rows, menu, configs, sysnet)
     IN /\ rows' = st.rows
        /\ menu' = st.menu
        /\ icons' = st.icons
  /\ lastOp' = PlainOp("poll", "done", TRUE)
  /\ invoked' = <<>>
  /\ errorBox' = <<>>
  /\ UNCHANGED <<appState, dirState, files, sysnet, configs>>

CommandSwapped(active) == IF active THEN "up" ELSE "down"

\* command = "down" if active else "up"
Command(active) == IF active THEN "down" ELSE "up"

FailureMessageNoStderr(interface, stderr) ==
  <<"Failed to toggle ">> \o interface

\* f"Failed to toggle {interface}:\n{result.stderr}"
FailureMessage(interface, stderr) ==
  <<"Failed to toggle ">> \o interface \o <<":\n">> \o stderr

\* The message boxes of toggle_vpn by the way subprocess.run ended.
ToggleMessages(interface, result, stderr) ==
  IF result = "exitN" THEN << FailureMessage(interface, stderr) >>
  ELSE IF result = "oserror" THEN << OsErrorText >>
  ELSE <<>>

\* toggle_vpn(interface).  The command ends with status 0 ("exit0"), with
\* another status ("exitN"), or cannot be started ("oserror").  A command
\* that ended with status 0 may or may not have changed the interface before
\* update_status reads it; after the other two nothing of the handler reads
\* the interface again, and what became of it is a NetChange.
ToggleVpn(interface) ==
  LET active == IsInterfaceActive(interface, sysnet)
  IN \E result \in {"exit0", "exitN", "oserror"}, stderr \in StderrTexts,
        net \in {sysnet, Flip(sysnet, interface)} :
       /\ result # "exit0" => net = sysnet
       /\ result # "exitN" => stderr = CHOOSE t \in StderrTexts : TRUE
       /\ sysnet' = net
       /\ invoked' = << [verb |-> Command(active), name |-> interface] >>
       /\ errorBox' = ToggleMessages(interface, result, stderr)
       /\ IF result = "exit0"
            THEN LET st == UpdateStatus(rows, menu, configs, net)
                 IN rows' = st.rows /\ menu' = st.menu /\ icons' = st.icons
            ELSE UNCHANGED <<rows, menu, icons>>
       /\ lastOp' = Op("toggle", result, result = "exit0", interface,
                        PathExists(interface, sysnet),
                        IF result = "exitN" THEN stderr ELSE <<>>)
       /\ UNCHANGED <<appState, dirState, files, configs>>

\* A handler that returns without doing anything.
Ignored ==
  /\ lastOp' = PlainOp("click", "ignored", FALSE)
  /\ invoked' = <<>>
  /\ errorBox' = <<>>
  /\ UNCHANGED <<appState, dirState, files, sysnet, configs, rows, menu, icons>>

\* "if name and name in self.configs: self.toggle_vpn(name)"
ToggleItem(item) ==
  IF ~Falsy(item.data) /\ InList(item.data[1], configs)
    THEN ToggleVpn(item.data[1])
    ELSE Ignored

\* on_list_double_click(item): the user double-clicks a row.
ListDoubleClick ==
  /\ Idle
  /\ \E i \in DOMAIN rows : ToggleItem(rows[i])

\* toggle_selected: the Toggle Selected button, with the row the user made
\* current before (0: none).
ToggleSelected ==
  /\ Idle
  /\ \E cur \in 0..Len(rows) :
       IF cur = 0 THEN Ignored ELSE ToggleItem(rows[cur])

\* A tray-menu entry is triggered: the lambda of a config entry, show_window
\* or quit_app.
TrayClick ==
  /\ Idle
  /\ \E k \in DOMAIN menu :
       \/ /\ menu[k].kind = "config"
          /\ ToggleVpn(menu[k].c)
       \/ /\ menu[k].kind = "show"
          /\ Ignored
       \/ /\ menu[k].kind = "quit"
          /\ appState' = "quit"
          /\ lastOp' = PlainOp("quit", "done", FALSE)
          /\ invoked' = <<>>
          /\ errorBox' = <<>>
          /\ UNCHANGED <<dirState, files, sysnet, configs, rows, menu, icons>>

Next ==
  \/ ReturnToEventLoop
  \/ DirStateChange
  \/ FileChange
  \/ NetChange
  \/ Refresh
  \/ TimerTick
  \/ ListDoubleClick
  \/ ToggleSelected
  \/ TrayClick

Spec == Init /\ [][Next]_vars

\* ------------------------------------------------------------------ claims
\* A scan_configs (Refresh, or the initial load of __init__) has just
\* returned normally after listing the directory.
ScanSucceeded == lastOp.op \in {"scan", "init"} /\ lastOp.outcome = "ok"

Matching == {f \in files : EndsWith(f, DotConf)}

Count(l, x) == Cardinality({i \in DOMAIN l : l[i] = x})

\* The file name less its last five characters.
StripOnlySuffix(f) == SubSeq(f, 1, Len(f) - Len(DotConf))

Contains(text, part) ==
  \E i \in 1..(Len(text) - Len(part) + 1) : OccursAt(text, i, part)

\* C1: after a successful scan of a directory with N entries ending in
\* ".conf", self.configs holds exactly N names, in ascending order, and each
\* name as often as the directory's matching entries yield it (nothing is
\* left from an earlier scan).
C1_ScanYieldsSortedMatching ==
  ScanSucceeded =>
    /\ Len(configs) = Cardinality(Matching)
    /\ \A i \in 1..(Len(configs) - 1) : ~StrLess(configs[i + 1], configs[i])
    /\ \A i \in DOMAIN configs :
         Count(configs, configs[i])
           = Cardinality({f \in Matching : ConfigName(f) = configs[i]})

\* A scan that kept one entry and dropped another.
C1_Witness ==
  /\ lastOp.op = "scan"
  /\ lastOp.outcome = "ok"
  /\ Len(configs) = 1
  /\ Cardinality(files) = 2

\* C2: every name a scan puts in self.configs is a matching file name with
\* only its trailing ".conf" removed, and every matching file name yields
\* that name.
C2_OnlySuffixStripped ==
  ScanSucceeded =>
    /\ \A f \in Matching : InList(StripOnlySuffix(f), configs)
    /\ \A i \in DOMAIN configs :
         \E f \in Matching : configs[i] = StripOnlySuffix(f)

\* C3: self.configs never holds a tunnel name twice.
C3_NoDuplicateNames ==
  \A i, j \in DOMAIN configs : i # j => configs[i] # configs[j]

\* C4: a toggle_vpn runs the external command exactly once, for its
\* interface, with "down" when the interface's path existed at the call and
\* "up" when it did not.
C4_ToggleVerbMatchesState ==
  lastOp.op = "toggle" =>
    /\ Len(invoked) = 1
    /\ invoked[1].name = lastOp.name
    /\ invoked[1].verb = (IF lastOp.wasActive THEN "down" ELSE "up")

\* An interface that was up has been sent "down".
C4_Witness ==
  /\ lastOp.op = "toggle"
  /\ lastOp.wasActive
  /\ lastOp.name \in IfNames
  /\ invoked = << [verb |-> "down", name |-> lastOp.name] >>

\* C5: a toggle_vpn whose command exits with 0 shows no error, one whose
\* command exits with another status shows one error that contains the
\* captured stderr text; neither changes self.configs.
C5_ExitCodeDecidesError ==
  [][ lastOp'.op = "toggle" =>
        /\ configs' = configs
        /\ lastOp'.outcome = "exit0" => errorBox' = <<>>
        /\ lastOp'.outcome = "exitN" =>
             /\ Len(errorBox') = 1
             /\ Contains(errorBox'[1], lastOp'.stderr) ]_vars

\* A failed command whose stderr text is on display.
C5_Witness ==
  /\ lastOp.op = "toggle"
  /\ lastOp.outcome = "exitN"
  /\ lastOp.stderr = <<"e", "r", "r">>
  /\ Len(errorBox) = 1
  /\ configs # <<>>

\* C6: right after an update_status, every list row of a tunnel and every
\* tray entry of a tunnel shows the active label if the tunnel's path exists
\* and the plain name if it does not.
C6_LabelsMatchPoll ==
  lastOp.polled =>
    /\ \A i \in DOMAIN rows :
         rows[i].data # <<>> =>
           rows[i].text = (IF PathExists(rows[i].data[1], sysnet)
                             THEN rows[i].data[1] \o ListActiveTag
                             ELSE rows[i].data[1])
    /\ \A k \in DOMAIN menu :
         menu[k].kind = "config" =>
           menu[k].text = (IF PathExists(menu[k].c, sysnet)
                             THEN menu[k].c \o TrayActiveTag
                             ELSE menu[k].c)

ShowsScanFailure == rows \in {MissingRows, DeniedRows}

\* C7: a scan of a missing or unreadable directory raises nothing, leaves
\* self.configs empty and the list with one row (missing) or two rows
\* (denied) that carry no tunnel name; a poll leaves these rows as they are
\* and the list's two toggle handlers run no command for them.
C7_ScanFailsSilently ==
  [][ /\ (Refresh /\ dirState \in {"missing", "denied"}) =>
           /\ appState' = "running"
           /\ lastOp'.outcome = dirState
           /\ configs' = <<>>
           /\ Len(rows') = (IF dirState = "missing" THEN 1 ELSE 2)
           /\ rows'[1].text = (IF dirState = "missing" THEN NotFoundText
                                                       ELSE DeniedText)
           /\ dirState = "denied" => rows'[2].text = HintText
           /\ \A i \in DOMAIN rows' : rows'[i].data = <<>>
      /\ (TimerTick /\ ShowsScanFailure) => rows' = rows
      /\ ((ListDoubleClick \/ ToggleSelected) /\ ShowsScanFailure) =>
           invoked' = <<>> ]_vars

\* A scan of an unreadable directory has left its two rows.
C7_Witness ==
  /\ lastOp.op = "scan"
  /\ lastOp.outcome = "denied"
  /\ appState = "running"
  /\ rows = DeniedRows
  /\ configs = <<>>

\* C8 as stated: while the list shows a failed scan and the directory has
\* become readable, the next timer tick or user action (other than Quit)
\* leaves the application running and retries the scan, so that the list no
\* longer shows the failure.
C8_RetriedOnAnyEvent ==
  [][ ( /\ ShowsScanFailure
         /\ Idle
         /\ dirState = "ok"
         /\ lastOp'.op \in {"poll", "click", "toggle", "scan"} )
        => (appState' = "running" /\ ~ShowsScanFailure') ]_vars

\* C8 as amended: a scan of a missing or unreadable directory and a command
\* with a non-zero exit leave the application running; a Refresh while the
\* list shows a failed scan scans again, against the directory as it is now;
\* no other handler rescans (the list keeps showing the failure), a timer
\* tick never runs the command, and every toggle runs the command anew.
C8_ErrorsEndOnlyTheirAction ==
  [][ /\ (Refresh /\ dirState \in {"missing", "denied"}) => appState' = "running"
      /\ (lastOp'.op = "toggle" /\ lastOp'.outcome = "exitN") =>
           appState' = "running"
      /\ (Refresh /\ ShowsScanFailure) =>
           /\ lastOp'.op = "scan"
           /\ lastOp'.outcome = (IF dirState = "notdir" THEN "raised" ELSE dirState)
           /\ dirState = "ok" => Len(rows') = Cardinality(Matching)
      /\ TimerTick =>
           /\ configs' = configs
           /\ invoked' = <<>>
      /\ (ShowsScanFailure /\ lastOp'.op \in {"poll", "click", "toggle"}) =>
           /\ rows' = rows
           /\ configs' = configs
      /\ lastOp'.op = "toggle" => Len(invoked') = 1 ]_vars

\* A scan found the directory missing and the application is still running.
C8_Witness ==
  /\ lastOp.op = "scan"
  /\ lastOp.outcome = "missing"
  /\ appState = "running"
  /\ rows = MissingRows

\* C9: the external command is only run for a name that is in self.configs,
\* and every tunnel entry of the tray menu is a name in self.configs.
C9_OnlyScannedNamesToggled ==
  /\ lastOp.op = "toggle" => InList(lastOp.name, configs)
  /\ \A k \in DOMAIN menu :
       menu[k].kind = "config" => InList(menu[k].c, configs)

\* C10: right after an update_status, the tray icon and the window icon show
\* the active indicator exactly when some name in self.configs has an
\* existing path.
C10_IconMatchesAnyActive ==
  lastOp.polled =>
    LET any == \E i \in DOMAIN configs : PathExists(configs[i], sysnet)
    IN /\ icons.tray = (IF any THEN "green" ELSE "red")
       /\ icons.window = (IF any THEN "green" ELSE "red")

====
